---- MODULE Spec2Model ----
(***************************************************************************)
(* Model of google_sheets_mcp_server/server.py: the credential fallback    *)
(* chain and context lifecycle of spreadsheet_lifespan, the tool functions *)
(* registered on the FastMCP server, and validate_api_key.                 *)
(***************************************************************************)
EXTENDS Integers, Sequences, FiniteSets, TLC

VARIABLES
    env,              \* what the process finds outside itself: files, remote auth endpoints
    DRIVE_FOLDER_ID,  \* module constant read from the environment (line 44)
    tokenFile,        \* contents of TOKEN_PATH on disk
    pc,               \* position of spreadsheet_lifespan
    creds,            \* local variable creds of spreadsheet_lifespan
    attempts,         \* credential sources invoked so far, in order, with their outcome
    sheets_service,   \* local variable sheets_service
    drive_service,    \* local variable drive_service
    ctx,              \* the SpreadsheetContext handed to the server, once yielded
    cleaned,          \* whether the finally block (line 169) has run
    req,              \* tool invocations in flight, one per slot
    MCP_API_KEY,      \* the environment's MCP_API_KEY
    API_KEY,          \* module global API_KEY (lines 47-52)
    provided_key,     \* argument of the validate_api_key call under study
    guard             \* position and result of that call

lifeVars == <<env, DRIVE_FOLDER_ID, tokenFile, pc, creds, attempts,
              sheets_service, drive_service, ctx, cleaned>>
guardVars == <<MCP_API_KEY, API_KEY, provided_key, guard>>
vars == <<env, DRIVE_FOLDER_ID, tokenFile, pc, creds, attempts,
          sheets_service, drive_service, ctx, cleaned, req,
          MCP_API_KEY, API_KEY, provided_key, guard>>

----------------------------------------------------------------------------
(* Values *)

\* Python's None, for string-valued fields.
None == "<None>"

\* creds = None
NoCreds == [kind |-> "None"]

\* A handle not (yet) built.
NoHandle == [api |-> "None"]

\* No context yielded.
NoCtx == [kind |-> "None"]

\* Python truthiness of the creds local: None is falsy, a credentials object is truthy.
Truthy(c) == c # NoCreds

\* service_account.Credentials built by from_service_account_info / _file.
ServiceAccountCreds(src) == [kind |-> "service_account", src |-> src]

\* google.oauth2.credentials.Credentials: the attributes the code reads.
UserCreds(src, valid, expired, refresh_token) ==
    [kind |-> "user", src |-> src, valid |-> valid, expired |-> expired,
     refresh_token |-> refresh_token]

\* google.auth.default() credentials.
DefaultCreds == [kind |-> "adc", src |-> "adc"]

\* The token files that Credentials.from_authorized_user_info can load:
\* a token is valid only if it is not expired.
LoadableTokens ==
    { [st |-> "ok", valid |-> v, expired |-> e, refresh_token |-> r] :
        v \in BOOLEAN, e \in BOOLEAN, r \in BOOLEAN } \
    { t \in [st : {"ok"}, valid : BOOLEAN, expired : BOOLEAN, refresh_token : BOOLEAN] :
        t.valid /\ t.expired }

TokenFiles == {[st |-> "absent"], [st |-> "bad"]} \cup LoadableTokens

\* What the process can find outside itself at startup.
Environments ==
    [ CREDENTIALS_CONFIG : {"unset", "bad", "good"},  \* inline base64 blob
      saFile    : {"absent", "bad", "good"},          \* SERVICE_ACCOUNT_PATH
      grant     : BOOLEAN,   \* the token endpoint honours the refresh token
      flow      : BOOLEAN,   \* client secrets present and the user consents
      writable  : BOOLEAN,   \* TOKEN_PATH can be opened for writing
      adc       : BOOLEAN,   \* ambient credentials exist
      buildSheets : BOOLEAN, \* build('sheets', 'v4') succeeds
      buildDrive  : BOOLEAN ]\* build('drive', 'v3') succeeds

Log(src, res) == [src |-> src, res |-> res]

\* A googleapiclient service object bound to a credential.
Handle(api, c) == [api |-> api, cred |-> c]

\* dataclass SpreadsheetContext
SpreadsheetContext(s, d, f) ==
    [kind |-> "SpreadsheetContext", sheets_service |-> s, drive_service |-> d,
     folder_id |-> f]

----------------------------------------------------------------------------
(* spreadsheet_lifespan *)

\* Priority 1, lines 80-87.
TryInlineConfig ==
    /\ pc = "inline"
    /\ pc' = "file"
    /\ IF env.CREDENTIALS_CONFIG = "unset"
         THEN UNCHANGED <<creds, attempts>>
         ELSE IF env.CREDENTIALS_CONFIG = "good"
           THEN /\ creds' = ServiceAccountCreds("inline")
                /\ attempts' = Append(attempts, Log("inline", "ok"))
           ELSE /\ creds' = NoCreds
                /\ attempts' = Append(attempts, Log("inline", "error"))
    /\ UNCHANGED <<env, DRIVE_FOLDER_ID, tokenFile, sheets_service, drive_service,
                   ctx, cleaned, req, guardVars>>

\* Priority 2, lines 93-103.
TryServiceAccountFile ==
    /\ pc = "file"
    /\ pc' = "token"
    /\ IF ~Truthy(creds) /\ env.saFile # "absent"
         THEN IF env.saFile = "good"
           THEN /\ creds' = ServiceAccountCreds("file")
                /\ attempts' = Append(attempts, Log("file", "ok"))
           ELSE /\ creds' = NoCreds
                /\ attempts' = Append(attempts, Log("file", "error"))
         ELSE UNCHANGED <<creds, attempts>>
    /\ UNCHANGED <<env, DRIVE_FOLDER_ID, tokenFile, sheets_service, drive_service,
                   ctx, cleaned, req, guardVars>>

\* How lines 117-118 classify a loaded token: valid; not valid but expired with a
\* refresh token; not valid otherwise.
TokenState(t) ==
    IF t.valid THEN "ok"
    ELSE IF t.expired /\ t.refresh_token THEN "refreshable" ELSE "invalid"

\* Priority 3, lines 106-114: the cached token is read only when no service
\* account credential was obtained; a load error leaves creds as it was (None).
LoadToken ==
    /\ pc = "token"
    /\ IF ~Truthy(creds)
         THEN /\ pc' = "refresh"
              /\ IF tokenFile.st = "absent"
                   THEN UNCHANGED <<creds, attempts>>
                   ELSE IF tokenFile.st = "bad"
                     THEN /\ UNCHANGED creds
                          /\ attempts' = Append(attempts, Log("token", "error"))
                     ELSE /\ creds' = UserCreds("token", tokenFile.valid,
                                                tokenFile.expired, tokenFile.refresh_token)
                          /\ attempts' = Append(attempts,
                                 Log("token", TokenState(tokenFile)))
         ELSE /\ pc' = "adc"
              /\ UNCHANGED <<creds, attempts>>
    /\ UNCHANGED <<env, DRIVE_FOLDER_ID, tokenFile, sheets_service, drive_service,
                   ctx, cleaned, req, guardVars>>

\* The name Request at line 120: the import at line 29 binds GoogleRequest,
\* and nothing binds Request.
RequestIsBound == FALSE

\* creds.refresh(Request()), line 120: evaluating the argument comes first.
RefreshOutcome(grant) ==
    IF ~RequestIsBound THEN "NameError"
    ELSE IF grant THEN "ok" ELSE "RefreshError"

\* Lines 117-124.
RefreshToken ==
    /\ pc = "refresh"
    /\ IF ~Truthy(creds) \/ ~creds.valid
         THEN /\ pc' = "flow"
              /\ IF Truthy(creds) /\ creds.expired /\ creds.refresh_token
                   THEN IF RefreshOutcome(env.grant) = "ok"
                     THEN /\ creds' = [creds EXCEPT !.valid = TRUE, !.expired = FALSE]
                          /\ attempts' = Append(attempts, Log("refresh", "ok"))
                     ELSE /\ creds' = NoCreds
                          /\ attempts' = Append(attempts,
                                                Log("refresh", RefreshOutcome(env.grant)))
                   ELSE UNCHANGED <<creds, attempts>>
         ELSE /\ pc' = "adc"
              /\ UNCHANGED <<creds, attempts>>
    /\ UNCHANGED <<env, DRIVE_FOLDER_ID, tokenFile, sheets_service, drive_service,
                   ctx, cleaned, req, guardVars>>

\* Lines 126-138: the flow and the write of the token file share one try block,
\* so a failed write discards the credential the flow returned.
InteractiveFlow ==
    /\ pc = "flow"
    /\ pc' = "adc"
    /\ IF ~Truthy(creds)
         THEN IF env.flow
           THEN /\ attempts' = Append(attempts, Log("flow", "ok"))
                /\ IF env.writable
                     THEN /\ creds' = UserCreds("flow", TRUE, FALSE, TRUE)
                          /\ tokenFile' = [st |-> "ok", valid |-> TRUE, expired |-> FALSE,
                                           refresh_token |-> TRUE]
                     ELSE /\ creds' = NoCreds
                          /\ UNCHANGED tokenFile
           ELSE /\ attempts' = Append(attempts, Log("flow", "error"))
                /\ creds' = NoCreds
                /\ UNCHANGED tokenFile
         ELSE UNCHANGED <<creds, attempts, tokenFile>>
    /\ UNCHANGED <<env, DRIVE_FOLDER_ID, sheets_service, drive_service,
                   ctx, cleaned, req, guardVars>>

\* Priority 4, lines 141-148.
TryADC ==
    /\ pc = "adc"
    /\ IF ~Truthy(creds)
         THEN IF env.adc
           THEN /\ creds' = DefaultCreds
                /\ attempts' = Append(attempts, Log("adc", "ok"))
                /\ pc' = "build"
           ELSE /\ UNCHANGED creds
                /\ attempts' = Append(attempts, Log("adc", "error"))
                /\ pc' = "raised_auth"
         ELSE /\ pc' = "build"
              /\ UNCHANGED <<creds, attempts>>
    /\ UNCHANGED <<env, DRIVE_FOLDER_ID, tokenFile, sheets_service, drive_service,
                   ctx, cleaned, req, guardVars>>

\* A variant of BuildServices that swallows a failed build.
BuildServicesSwallowing ==
    /\ pc = "build"
    /\ pc' = "yield"
    /\ sheets_service' = IF env.buildSheets THEN Handle("sheets", creds) ELSE NoHandle
    /\ drive_service' = IF env.buildDrive THEN Handle("drive", creds) ELSE NoHandle
    /\ UNCHANGED <<env, DRIVE_FOLDER_ID, tokenFile, creds, attempts,
                   ctx, cleaned, req, guardVars>>

\* Lines 151-157: both handles are built in one try block; a failure re-raises.
BuildServices ==
    /\ pc = "build"
    /\ IF env.buildSheets
         THEN /\ sheets_service' = Handle("sheets", creds)
              /\ IF env.buildDrive
                   THEN /\ drive_service' = Handle("drive", creds)
                        /\ pc' = "yield"
                   ELSE /\ UNCHANGED drive_service
                        /\ pc' = "raised_build"
         ELSE /\ UNCHANGED <<sheets_service, drive_service>>
              /\ pc' = "raised_build"
    /\ UNCHANGED <<env, DRIVE_FOLDER_ID, tokenFile, creds, attempts,
                   ctx, cleaned, req, guardVars>>

\* Lines 159-165: the context is constructed and yielded to the server.
YieldContext ==
    /\ pc = "yield"
    /\ pc' = "serving"
    /\ ctx' = SpreadsheetContext(sheets_service, drive_service,
                                 IF DRIVE_FOLDER_ID # "" THEN DRIVE_FOLDER_ID ELSE None)
    /\ UNCHANGED <<env, DRIVE_FOLDER_ID, tokenFile, creds, attempts,
                   sheets_service, drive_service, cleaned, req, guardVars>>

\* Lines 166-169: the generator is resumed at shutdown, then the finally block runs.
NormalExit ==
    /\ pc = "serving"
    /\ pc' = "closed_ok"
    /\ cleaned' = TRUE
    /\ UNCHANGED <<env, DRIVE_FOLDER_ID, tokenFile, creds, attempts,
                   sheets_service, drive_service, ctx, req, guardVars>>

\* A variant of ErrorInUse as an except-less try: the error leaves without cleanup.
ErrorInUseNoFinally ==
    /\ pc = "serving"
    /\ pc' = "closed_err"
    /\ UNCHANGED <<env, DRIVE_FOLDER_ID, tokenFile, creds, attempts,
                   sheets_service, drive_service, ctx, cleaned, req, guardVars>>

\* Lines 159-169: an error raised while the context is in use is thrown into
\* the generator at the yield; the finally block runs and the error propagates.
ErrorInUse ==
    /\ pc = "serving"
    /\ pc' = "closed_err"
    /\ cleaned' = TRUE
    /\ UNCHANGED <<env, DRIVE_FOLDER_ID, tokenFile, creds, attempts,
                   sheets_service, drive_service, ctx, req, guardVars>>

----------------------------------------------------------------------------
(* validate_api_key *)

\* Strings that are compared character by character are sequences of code points.
Alphabet == {97, 98, 233}

\* Longest API key of the model.
MaxKeyLen == 2

RECURSIVE StringsUpTo(_)
StringsUpTo(n) ==
    IF n = 0 THEN {<<>>}
    ELSE LET shorter == StringsUpTo(n - 1)
         IN  shorter \cup { Append(s, c) : s \in { t \in shorter : Len(t) = n - 1 },
                                           c \in Alphabet }

Keys == StringsUpTo(MaxKeyLen)

\* An absent key: os.environ.get returns None, or the request carries no header.
KeyNone == <<-1>>

\* Python truthiness of a key: None and the empty string are falsy.
KeyTruthy(k) == k # KeyNone /\ k # <<>>

IsAscii(s) == \A i \in DOMAIN s : s[i] < 128

\* secrets.compare_digest on two str arguments (line 68): it refuses strings
\* with non-ASCII characters with a TypeError, and compares the others.
compare_digest(a, b) ==
    IF ~IsAscii(a) \/ ~IsAscii(b) THEN "TypeError"
    ELSE IF a = b THEN "True" ELSE "False"

\* validate_api_key, lines 64-68.
validate_api_key(provided) ==
    IF ~KeyTruthy(provided) \/ ~KeyTruthy(API_KEY) THEN "False"
    ELSE compare_digest(provided, API_KEY)

\* secrets.token_urlsafe(32), line 50: a non-empty string of URL-safe ASCII.
GeneratedKeys == { k \in Keys : k # <<>> /\ IsAscii(k) }

\* Module import, lines 47-52.
ImportModule ==
    /\ guard.pc = "import"
    /\ IF KeyTruthy(MCP_API_KEY)
         THEN API_KEY' = MCP_API_KEY
         ELSE \E k \in GeneratedKeys : API_KEY' = k
    /\ guard' = [pc |-> "ready"]
    /\ UNCHANGED <<lifeVars, req, MCP_API_KEY, provided_key>>

\* A call validate_api_key(provided_key).
CallValidate ==
    /\ guard.pc = "ready"
    /\ guard' = [pc |-> "returned", result |-> validate_api_key(provided_key)]
    /\ UNCHANGED <<lifeVars, req, MCP_API_KEY, API_KEY, provided_key>>

----------------------------------------------------------------------------
(* The tools *)

\* Tool invocations that can be in progress at once.
MaxInFlight == 2

Slots == 1 .. MaxInFlight

\* An argument the caller did not supply.
Missing == "<missing>"

SpreadsheetIds == {Missing, "", "S1"}
SheetNames == {Missing, "Sheet1"}
Ranges == {None, "A1:B2"}
Titles == {Missing, "", "Budget"}
\* The data argument: not supplied, or a 2-D array, here named "rows".
DataArgs == {Missing, "rows"}

\* Errors a remote call can end in.
Causes == {"HttpError", "TimeoutError"}

NoValue == [none |-> TRUE]

Idle == [st |-> "idle"]

\* A tool function suspended in .execute(): the arguments bound to its required
\* parameters, its other locals, and the request it sent.
Frame(tool, required, locals, call) ==
    [st |-> "remote", tool |-> tool, required |-> required, locals |-> locals,
     call |-> call]

\* A tool invocation that returned a value; resp is what the remote answered.
Returned(tool, value, resp) ==
    [st |-> "done", tool |-> tool, outcome |-> "return", cause |-> "",
     value |-> value, remote |-> "ok", resp |-> resp]

\* A variant of Raised that answers with an empty success response.
RaisedSwallowed(cause, remote) ==
    [st |-> "done", outcome |-> "return", cause |-> "", value |-> NoValue,
     remote |-> remote, resp |-> NoValue]

\* A tool invocation that raised: except Exception as e: logger.error(...); raise
\* re-raises the exception it caught (lines 257-259 and the like). What reaches
\* the caller is the exception; remote records how the remote call itself ended.
Raised(cause, remote) ==
    [st |-> "done", outcome |-> "raise", cause |-> cause, value |-> NoValue,
     remote |-> remote, resp |-> NoValue]

\* A variant of Binds in which an argument that was not supplied is bound to None.
BindsAnything(required) == TRUE

\* Binding the arguments to the parameters of a def: every parameter without a
\* default must be supplied, or the call raises TypeError before the body runs.
Binds(required) == \A k \in DOMAIN required : required[k] # Missing

\* f"{sheet}!{range}" (line 227), kept as its parts.
Bang(sheet, range) == <<sheet, "!", range>>

\* Python truthiness of an Optional[str].
StrTruthy(x) == x # None /\ x # ""

\* The transport hands a request to a tool: the HTTP request has arrived with
\* its X-API-Key header (or none).
Receive(i) ==
    /\ pc = "serving"
    /\ req[i] = Idle
    /\ \E k \in {KeyNone, <<97, 98>>, <<98, 97>>} :
          req' = [req EXCEPT ![i] = [st |-> "received", key |-> k]]
    /\ UNCHANGED <<lifeVars, guardVars>>

Dispatchable(i) == pc = "serving" /\ req[i].st = "received"

\* health_check, lines 509-521: no remote call.
health_check(i) ==
    /\ Dispatchable(i)
    /\ req' = [req EXCEPT ![i] =
                 [st |-> "done", tool |-> "health_check", outcome |-> "return",
                  cause |-> "", remote |-> "none", resp |-> NoValue,
                  value |-> [status |-> "healthy",
                             service |-> "Google Sheets MCP Server"]]]
    /\ UNCHANGED <<lifeVars, guardVars>>

\* get_sheet_data up to the remote call, lines 203-244.
get_sheet_data(i) ==
    /\ Dispatchable(i)
    /\ \E spreadsheet_id \in SpreadsheetIds, sheet \in SheetNames,
          range \in Ranges, include_grid_data \in BOOLEAN :
          LET full_range == IF StrTruthy(range) THEN Bang(sheet, range) ELSE <<sheet>>
              locals == [spreadsheet_id |-> spreadsheet_id, full_range |-> full_range,
                         include_grid_data |-> include_grid_data]
              call == IF include_grid_data
                        THEN [via |-> ctx.sheets_service.api, method |-> "spreadsheets.get",
                              spreadsheetId |-> spreadsheet_id, ranges |-> <<full_range>>,
                              includeGridData |-> TRUE]
                        ELSE [via |-> ctx.sheets_service.api,
                              method |-> "spreadsheets.values.get",
                              spreadsheetId |-> spreadsheet_id, range |-> full_range]
          IN  req' = [req EXCEPT ![i] =
                        IF Binds(<<spreadsheet_id, sheet>>)
                          THEN Frame("get_sheet_data", <<spreadsheet_id, sheet>>, locals, call)
                          ELSE Raised("TypeError", "none")]
    /\ UNCHANGED <<lifeVars, guardVars>>

\* update_cells up to the remote call, lines 263-297.
update_cells(i) ==
    /\ Dispatchable(i)
    /\ \E spreadsheet_id \in SpreadsheetIds, sheet \in SheetNames,
          range \in {Missing, "", "A1:B2"}, data \in DataArgs :
          LET full_range == Bang(sheet, range)
              call == [via |-> ctx.sheets_service.api,
                       method |-> "spreadsheets.values.update",
                       spreadsheetId |-> spreadsheet_id, range |-> full_range,
                       valueInputOption |-> "USER_ENTERED", body |-> [values |-> data]]
          IN  req' = [req EXCEPT ![i] =
                        IF Binds(<<spreadsheet_id, sheet, range, data>>)
                          THEN Frame("update_cells", <<spreadsheet_id, sheet, range, data>>,
                                     NoValue, call)
                          ELSE Raised("TypeError", "none")]
    /\ UNCHANGED <<lifeVars, guardVars>>

\* A variant of FileBody that never names a parent.
FileBodyWithoutParents(title, folder_id) ==
    [name |-> title, mimeType |-> "application/vnd.google-apps.spreadsheet"]

\* file_body of create_spreadsheet, lines 321-326.
FileBody(title, folder_id) ==
    IF StrTruthy(folder_id)
      THEN [name |-> title, mimeType |-> "application/vnd.google-apps.spreadsheet",
            parents |-> <<folder_id>>]
      ELSE [name |-> title, mimeType |-> "application/vnd.google-apps.spreadsheet"]

\* create_spreadsheet up to the remote call, lines 307-333.
create_spreadsheet(i) ==
    /\ Dispatchable(i)
    /\ \E title \in Titles :
          LET folder_id == ctx.folder_id
              file_body == FileBody(title, folder_id)
              call == [via |-> ctx.drive_service.api, method |-> "files.create",
                       supportsAllDrives |-> TRUE, body |-> file_body,
                       fields |-> "id, name, parents"]
          IN  req' = [req EXCEPT ![i] =
                        IF Binds(<<title>>)
                          THEN Frame("create_spreadsheet", <<title>>, [title |-> title], call)
                          ELSE Raised("TypeError", "none")]
    /\ UNCHANGED <<lifeVars, guardVars>>

\* The query string of list_spreadsheets, lines 362-366, kept as its parts.
ListQuery(folder_id) ==
    IF StrTruthy(folder_id)
      THEN [mimeType |-> "application/vnd.google-apps.spreadsheet", parent |-> folder_id]
      ELSE [mimeType |-> "application/vnd.google-apps.spreadsheet", parent |-> None]

\* list_spreadsheets up to the remote call, lines 351-380.
list_spreadsheets(i) ==
    /\ Dispatchable(i)
    /\ LET folder_id == ctx.folder_id
           call == [via |-> ctx.drive_service.api, method |-> "files.list",
                    q |-> ListQuery(folder_id), spaces |-> "drive",
                    fields |-> "files(id, name)", orderBy |-> "modifiedTime desc"]
       IN  req' = [req EXCEPT ![i] = Frame("list_spreadsheets", <<>>, NoValue, call)]
    /\ UNCHANGED <<lifeVars, guardVars>>

\* add_rows up to the remote call, lines 392-421.
add_rows(i) ==
    /\ Dispatchable(i)
    /\ \E spreadsheet_id \in SpreadsheetIds, sheet \in SheetNames, data \in DataArgs :
          LET call == [via |-> ctx.sheets_service.api,
                       method |-> "spreadsheets.values.append",
                       spreadsheetId |-> spreadsheet_id, range |-> <<sheet>>,
                       valueInputOption |-> "USER_ENTERED", body |-> [values |-> data]]
          IN  req' = [req EXCEPT ![i] =
                        IF Binds(<<spreadsheet_id, sheet, data>>)
                          THEN Frame("add_rows", <<spreadsheet_id, sheet, data>>, NoValue, call)
                          ELSE Raised("TypeError", "none")]
    /\ UNCHANGED <<lifeVars, guardVars>>

\* list_sheets up to the remote call, lines 431-445.
list_sheets(i) ==
    /\ Dispatchable(i)
    /\ \E spreadsheet_id \in SpreadsheetIds :
          LET call == [via |-> ctx.sheets_service.api, method |-> "spreadsheets.get",
                       spreadsheetId |-> spreadsheet_id]
          IN  req' = [req EXCEPT ![i] =
                        IF Binds(<<spreadsheet_id>>)
                          THEN Frame("list_sheets", <<spreadsheet_id>>, NoValue, call)
                          ELSE Raised("TypeError", "none")]
    /\ UNCHANGED <<lifeVars, guardVars>>

\* create_sheet up to the remote call, lines 458-491.
create_sheet(i) ==
    /\ Dispatchable(i)
    /\ \E spreadsheet_id \in SpreadsheetIds, title \in Titles :
          LET request_body ==
                 [requests |-> <<[addSheet |-> [properties |-> [title |-> title]]]>>]
              call == [via |-> ctx.sheets_service.api, method |-> "spreadsheets.batchUpdate",
                       spreadsheetId |-> spreadsheet_id, body |-> request_body]
          IN  req' = [req EXCEPT ![i] =
                        IF Binds(<<spreadsheet_id, title>>)
                          THEN Frame("create_sheet", <<spreadsheet_id, title>>,
                                     [spreadsheet_id |-> spreadsheet_id], call)
                          ELSE Raised("TypeError", "none")]
    /\ UNCHANGED <<lifeVars, guardVars>>

----------------------------------------------------------------------------
(* The remote services, at the boundary *)

\* The files.list answer for a query: the files of the drive that match it, most
\* recently modified first, with the fields asked for.
DriveFiles ==
    << [id |-> "D3", name |-> "Plan", parents |-> <<"F1">>,
        mimeType |-> "application/vnd.google-apps.spreadsheet"],
       [id |-> "D2", name |-> "Notes", parents |-> <<"0AROOT">>,
        mimeType |-> "application/vnd.google-apps.spreadsheet"],
       [id |-> "D1", name |-> "Photo", parents |-> <<"F1">>, mimeType |-> "image/png"],
       [id |-> "D0", name |-> "Team", parents |-> <<"0ASHARED">>,
        mimeType |-> "application/vnd.google-apps.spreadsheet"] >>

RECURSIVE IdAndName(_)
IdAndName(files) ==
    IF files = <<>> THEN <<>>
    ELSE <<[id |-> Head(files).id, name |-> Head(files).name]>> \o IdAndName(Tail(files))

RemoteList(q) ==
    LET Matches(f) == /\ f.mimeType = q.mimeType
                      /\ q.parent # None => q.parent \in {f.parents[k] : k \in DOMAIN f.parents}
    IN  IdAndName(SelectSeq(DriveFiles, Matches))

\* What a remote call that succeeds can answer.
ResponsesTo(call) ==
    CASE call.method = "spreadsheets.values.get" ->
           { [range |-> call.range, values |-> <<<<"a", "b">>, <<"c", "d">>>>],
             [range |-> call.range] }
      [] call.method = "spreadsheets.get" ->
           { [spreadsheetId |-> call.spreadsheetId,
              sheets |-> << [properties |-> [title |-> "Sheet1"]],
                            [properties |-> [title |-> "Data"]] >>] }
      [] call.method \in {"spreadsheets.values.update", "spreadsheets.values.append"} ->
           { [spreadsheetId |-> call.spreadsheetId, updatedRows |-> 2] }
      [] call.method = "files.create" ->
           { [id |-> "NEW"], [id |-> "NEW", name |-> call.body.name] }
           \cup { [id |-> "NEW", name |-> call.body.name, parents |-> p] :
                    p \in {<<>>, <<"0AROOT">>, <<"F1">>} }
      [] call.method = "files.list" ->
           { [files |-> RemoteList(call.q)], [kind |-> "drive#fileList"] }
      [] call.method = "spreadsheets.batchUpdate" ->
           LET title == call.body.requests[1].addSheet.properties.title
           IN  { [replies |-> <<[addSheet |-> [properties |->
                                  [sheetId |-> 7, title |-> title, index |-> 1]]]>>],
                 [replies |-> <<[addSheet |-> [properties |->
                                  [sheetId |-> 7, title |-> title]]]>>] }

----------------------------------------------------------------------------
(* The tools, from the remote answer to the return *)

RECURSIVE SheetTitles(_)
SheetTitles(sheets) ==
    IF sheets = <<>> THEN <<>>
    ELSE <<Head(sheets).properties.title>> \o SheetTitles(Tail(sheets))

RECURSIVE IdAndTitle(_)
IdAndTitle(files) ==
    IF files = <<>> THEN <<>>
    ELSE <<[id |-> Head(files).id, title |-> Head(files).name]>> \o IdAndTitle(Tail(files))

\* get_sheet_data, lines 246-256.
get_sheet_data_result(f, resp) ==
    IF f.locals.include_grid_data THEN resp
    ELSE [spreadsheetId |-> f.locals.spreadsheet_id,
          valueRanges |-> << [range |-> f.locals.full_range,
                              values |-> IF "values" \in DOMAIN resp
                                           THEN resp.values ELSE <<>>] >>]

\* create_spreadsheet, lines 335-344.
create_spreadsheet_result(f, resp) ==
    LET parents == IF "parents" \in DOMAIN resp THEN resp.parents ELSE <<>>
    IN  [spreadsheetId |-> resp.id,
         title |-> IF "name" \in DOMAIN resp THEN resp.name ELSE f.locals.title,
         folder |-> IF parents # <<>> THEN parents[1] ELSE "root"]

\* list_spreadsheets, lines 382-385.
list_spreadsheets_result(f, resp) ==
    IdAndTitle(IF "files" \in DOMAIN resp THEN resp.files ELSE <<>>)

\* list_sheets, lines 448-451.
list_sheets_result(f, resp) == SheetTitles(resp.sheets)

\* create_sheet, lines 494-502.
create_sheet_result(f, resp) ==
    LET new_sheet_props == resp.replies[1].addSheet.properties
    IN  [sheetId |-> new_sheet_props.sheetId,
         title |-> new_sheet_props.title,
         index |-> IF "index" \in DOMAIN new_sheet_props
                     THEN new_sheet_props.index ELSE -1,
         spreadsheetId |-> f.locals.spreadsheet_id]

ToolResult(f, resp) ==
    CASE f.tool = "get_sheet_data" -> get_sheet_data_result(f, resp)
      [] f.tool = "update_cells" -> resp
      [] f.tool = "add_rows" -> resp
      [] f.tool = "create_spreadsheet" -> create_spreadsheet_result(f, resp)
      [] f.tool = "list_spreadsheets" -> list_spreadsheets_result(f, resp)
      [] f.tool = "list_sheets" -> list_sheets_result(f, resp)
      [] f.tool = "create_sheet" -> create_sheet_result(f, resp)

\* .execute() returns and the tool runs to its return statement.
RemoteReturn(i) ==
    /\ req[i].st = "remote"
    /\ \E resp \in ResponsesTo(req[i].call) :
          req' = [req EXCEPT ![i] = Returned(req[i].tool, ToolResult(req[i], resp), resp)]
    /\ UNCHANGED <<lifeVars, guardVars>>

\* .execute() raises: the except clause logs and re-raises.
RemoteFail(i) ==
    /\ req[i].st = "remote"
    /\ \E cause \in Causes :
          req' = [req EXCEPT ![i] = Raised(cause, cause)]
    /\ UNCHANGED <<lifeVars, guardVars>>

\* The transport has sent the result or the error to the caller.
Respond(i) ==
    /\ req[i].st = "done"
    /\ req' = [req EXCEPT ![i] = Idle]
    /\ UNCHANGED <<lifeVars, guardVars>>

\* State on entering spreadsheet_lifespan (lines 72-77).
Init ==
    /\ env \in Environments
    /\ DRIVE_FOLDER_ID \in {"", "F1"}
    /\ tokenFile \in TokenFiles
    /\ pc = "inline"
    /\ creds = NoCreds
    /\ attempts = <<>>
    /\ sheets_service = NoHandle
    /\ drive_service = NoHandle
    /\ ctx = NoCtx
    /\ cleaned = FALSE
    /\ req = [i \in Slots |-> Idle]
    /\ MCP_API_KEY = <<97, 98>>
    /\ API_KEY = <<97, 98>>
    /\ provided_key = KeyNone
    /\ guard = [pc |-> "off"]

Next ==
    \/ TryInlineConfig
    \/ TryServiceAccountFile
    \/ LoadToken
    \/ RefreshToken
    \/ InteractiveFlow
    \/ TryADC
    \/ BuildServices
    \/ YieldContext
    \/ NormalExit
    \/ ErrorInUse

Spec == Init /\ [][Next]_vars

\* The server while it serves: spreadsheet_lifespan has yielded a context built
\* on the inline service account, with or without a working folder.
InitTools ==
    /\ env = [CREDENTIALS_CONFIG |-> "good", saFile |-> "absent", grant |-> FALSE,
              flow |-> FALSE, writable |-> FALSE, adc |-> FALSE,
              buildSheets |-> TRUE, buildDrive |-> TRUE]
    /\ DRIVE_FOLDER_ID \in {"", "F1"}
    /\ tokenFile = [st |-> "absent"]
    /\ pc = "serving"
    /\ creds = ServiceAccountCreds("inline")
    /\ attempts = <<Log("inline", "ok")>>
    /\ sheets_service = Handle("sheets", creds)
    /\ drive_service = Handle("drive", creds)
    /\ ctx = SpreadsheetContext(sheets_service, drive_service,
                                IF DRIVE_FOLDER_ID # "" THEN DRIVE_FOLDER_ID ELSE None)
    /\ cleaned = FALSE
    /\ req = [i \in Slots |-> Idle]
    /\ MCP_API_KEY = <<97, 98>>
    /\ API_KEY = <<97, 98>>
    /\ provided_key = KeyNone
    /\ guard = [pc |-> "off"]

NextTools ==
    \E i \in Slots :
       \/ Receive(i)
       \/ health_check(i)
       \/ get_sheet_data(i)
       \/ update_cells(i)
       \/ create_spreadsheet(i)
       \/ list_spreadsheets(i)
       \/ add_rows(i)
       \/ list_sheets(i)
       \/ create_sheet(i)
       \/ RemoteReturn(i)
       \/ RemoteFail(i)
       \/ Respond(i)

SpecTools == InitTools /\ [][NextTools]_vars

\* The module is being imported and validate_api_key is about to be called on
\* some key: any configured key, any provided key.
InitGuard ==
    /\ env = [CREDENTIALS_CONFIG |-> "good", saFile |-> "absent", grant |-> FALSE,
              flow |-> FALSE, writable |-> FALSE, adc |-> FALSE,
              buildSheets |-> TRUE, buildDrive |-> TRUE]
    /\ DRIVE_FOLDER_ID = ""
    /\ tokenFile = [st |-> "absent"]
    /\ pc = "inline"
    /\ creds = NoCreds
    /\ attempts = <<>>
    /\ sheets_service = NoHandle
    /\ drive_service = NoHandle
    /\ ctx = NoCtx
    /\ cleaned = FALSE
    /\ req = [i \in Slots |-> Idle]
    /\ MCP_API_KEY \in Keys \cup {KeyNone}
    /\ API_KEY = KeyNone
    /\ provided_key \in Keys \cup {KeyNone}
    /\ guard = [pc |-> "import"]

NextGuard == ImportModule \/ CallValidate

SpecGuard == InitGuard /\ [][NextGuard]_vars

----------------------------------------------------------------------------
(* Properties of credential resolution and of the context lifecycle *)

\* Position of a source in the order of the fallback chain; the refresh belongs
\* to the cached-token source.
Rank(src) ==
    CASE src = "inline" -> 1
      [] src = "file" -> 2
      [] src = "token" -> 3
      [] src = "refresh" -> 3
      [] src = "flow" -> 4
      [] src = "adc" -> 5

ResolutionOver == pc \notin {"inline", "file", "token", "refresh", "flow", "adc"}

Exited == pc \in {"closed_ok", "closed_err", "raised_auth", "raised_build"}

\* The credential the two handles of the yielded context are bound to comes from src.
BoundTo(src) ==
    /\ ctx.sheets_service # NoHandle
    /\ ctx.drive_service # NoHandle
    /\ Rank(ctx.sheets_service.cred.src) = Rank(src)
    /\ Rank(ctx.drive_service.cred.src) = Rank(src)

\* C1: the sources are tried in the order inline, file, cached token (with
\* refresh), interactive flow, ambient default; once a source has yielded a valid
\* credential no later source is invoked, and that credential is the one the two
\* service handles are bound to.
C1_ShortCircuit ==
    /\ \A i, j \in DOMAIN attempts :
          i < j => \/ Rank(attempts[i].src) < Rank(attempts[j].src)
                   \/ attempts[i].src = "token" /\ attempts[j].src = "refresh"
    /\ \A i \in DOMAIN attempts :
          attempts[i].res = "ok" =>
             /\ \A j \in DOMAIN attempts : j > i => Rank(attempts[j].src) = Rank(attempts[i].src)
             /\ ctx # NoCtx => BoundTo(attempts[i].src)

\* No source invoked so far has yielded a valid credential.
NoValidYield == \A i \in DOMAIN attempts : attempts[i].res # "ok"

\* C2: when no source yields a valid credential, resolution fails fatally:
\* spreadsheet_lifespan raises, no handle is built and no context is constructed.
C2_FatalWhenNoneValid ==
    NoValidYield =>
       /\ sheets_service = NoHandle
       /\ drive_service = NoHandle
       /\ ctx = NoCtx
       /\ Exited => pc = "raised_auth"

\* The cached token was loaded expired with a refresh token, and the refresh
\* step (lines 117-124) is over.
RefreshCaseOver ==
    /\ \E i \in DOMAIN attempts : attempts[i] = Log("token", "refreshable")
    /\ pc \notin {"inline", "file", "token", "refresh"}

\* C3: a cached token that is expired with a refresh capability is refreshed in
\* place; after a successful refresh the refreshed token is the credential used
\* and neither the interactive flow nor the ambient default is invoked; after a
\* failed refresh the token is discarded and resolution falls through.
C3_RefreshInPlace ==
    RefreshCaseOver =>
       /\ env.grant =>
             /\ creds = UserCreds("token", TRUE, FALSE, TRUE)
             /\ \A i \in DOMAIN attempts : attempts[i].src \notin {"flow", "adc"}
       /\ ~env.grant =>
             /\ creds # UserCreds("token", FALSE, TRUE, TRUE)
             /\ pc = "flow" => creds = NoCreds

\* C4 as claimed: the teardown step has run on every exit path, those that
\* leave during initialisation included.
C4_TeardownOnEveryExit == Exited => cleaned

\* C4: the teardown step has run on every exit path taken after the context was
\* yielded (normal shutdown, an error raised while the context is in use); a
\* fatal credential failure or a failed handle build leaves without running it.
C4_TeardownAfterYield ==
    /\ pc \in {"closed_ok", "closed_err"} => cleaned
    /\ pc \in {"raised_auth", "raised_build"} => ~cleaned

\* An error raised while the context was in use has left through the teardown.
C4_Witness == pc = "closed_err" /\ cleaned

\* C5: whenever a context is available, credential resolution is over and both
\* handles are built on the resolved credential; when either build fails startup
\* aborts and no context is ever available.
C5_NoPartialContext ==
    /\ ctx # NoCtx =>
          /\ ResolutionOver
          /\ Truthy(creds)
          /\ ctx.sheets_service = Handle("sheets", creds)
          /\ ctx.drive_service = Handle("drive", creds)
    /\ pc = "serving" => ctx # NoCtx
    /\ (~env.buildSheets \/ ~env.buildDrive) =>
          /\ ctx = NoCtx
          /\ pc \notin {"yield", "serving", "closed_ok", "closed_err"}
    /\ pc = "raised_build" => ctx = NoCtx /\ ~(env.buildSheets /\ env.buildDrive)

\* A context is being served on handles bound to a refreshed or loaded user token.
C5_Witness == pc = "serving" /\ ctx # NoCtx /\ ctx.drive_service.cred.kind = "user"

----------------------------------------------------------------------------
(* Properties of the tools and of the access guard *)

\* The invocation in slot i has sent its remote request and awaits the answer.
Issued(i) == req[i].st = "remote"

\* C6 as claimed: an invocation whose required field is missing or empty never
\* issues a remote call.
C6_ValidatedBeforeRemote ==
    \A i \in Slots :
       Issued(i) => \A k \in DOMAIN req[i].required : req[i].required[k] \notin {Missing, ""}

\* C6: an invocation whose required field is missing never issues a remote call
\* (binding its arguments fails first); a field that is supplied, the empty
\* string included, is sent to the remote service as it was given.
C6_MissingNeverIssued ==
    \A i \in Slots :
       /\ Issued(i) =>
             /\ \A k \in DOMAIN req[i].required : req[i].required[k] # Missing
             /\ "spreadsheetId" \in DOMAIN req[i].call =>
                   req[i].call.spreadsheetId = req[i].required[1]
       /\ (req[i].st = "done" /\ req[i].cause = "TypeError") => req[i].remote = "none"

\* One invocation was refused for a missing argument while another, given an
\* empty identifier, has its remote call in flight.
C6_Witness ==
    \E i, j \in Slots :
       /\ req[i] = Raised("TypeError", "none")
       /\ Issued(j)
       /\ \E k \in DOMAIN req[j].required : req[j].required[k] = ""

\* C7: an invocation whose remote call failed ends in a failure carrying that
\* cause, never in a success; one whose remote call succeeded returns its
\* response whatever happened to the others; the shared context stays as yielded.
C7_FailureIsolated ==
    /\ \A i \in Slots :
          req[i].st = "done" =>
             /\ req[i].remote \in Causes =>
                   req[i].outcome = "raise" /\ req[i].cause = req[i].remote
             /\ req[i].remote = "ok" =>
                   req[i].outcome = "return" /\ req[i].resp # NoValue
    /\ ctx = SpreadsheetContext(Handle("sheets", creds), Handle("drive", creds),
                                IF DRIVE_FOLDER_ID # "" THEN DRIVE_FOLDER_ID ELSE None)

\* One invocation has failed on its remote call and another has returned.
C7_Witness ==
    \E i, j \in Slots :
       /\ req[i].st = "done" /\ req[i].remote \in Causes /\ req[i].outcome = "raise"
       /\ req[j].st = "done" /\ req[j].remote = "ok" /\ req[j].outcome = "return"

\* C8: validate_api_key returns a boolean for every input, true exactly when the
\* provided key equals the configured one, and false whenever either is empty or
\* absent.
C8_ExactMatch ==
    guard.pc = "returned" =>
       /\ guard.result \in {"True", "False"}
       /\ (guard.result = "True") <=> (provided_key = API_KEY)
       /\ (~KeyTruthy(provided_key) \/ ~KeyTruthy(API_KEY)) => guard.result = "False"

\* C9: a request enters a tool function only after validate_api_key has
\* returned true for the key it carries.
C9_CheckedBeforeDispatch ==
    [][ \A i \in Slots :
          (req[i].st = "received" /\ req'[i].st # "received") =>
             validate_api_key(req[i].key) = "True" ]_vars

\* The invocation in slot i is a create_spreadsheet that has returned.
Created(i) ==
    /\ req[i].st = "done"
    /\ req[i].outcome = "return"
    /\ req[i].tool = "create_spreadsheet"

\* The request body of create_spreadsheet names the working folder as its only
\* parent when one is configured, and has no parents field otherwise.
ParentsAsConfigured ==
    \A i \in Slots :
       (Issued(i) /\ req[i].tool = "create_spreadsheet") =>
          IF ctx.folder_id # None
            THEN /\ "parents" \in DOMAIN req[i].call.body
                 /\ req[i].call.body.parents = <<ctx.folder_id>>
            ELSE "parents" \notin DOMAIN req[i].call.body

\* C10 as claimed: the body carries the configured folder as its sole parent, or
\* no parents field; with no folder configured the response's folder is "root"
\* whatever the remote service returned.
C10_RootWhenUnconfigured ==
    /\ ParentsAsConfigured
    /\ \A i \in Slots :
          (Created(i) /\ ctx.folder_id = None) => req[i].value.folder = "root"

\* C10: the body carries the configured folder as its sole parent, or no parents
\* field; with no folder configured the response's folder is the first parent the
\* remote service returned for the file, and "root" only when it returned none.
C10_FolderFromRemote ==
    /\ ParentsAsConfigured
    /\ \A i \in Slots :
          (Created(i) /\ ctx.folder_id = None) =>
             req[i].value.folder =
                IF "parents" \in DOMAIN req[i].resp /\ req[i].resp.parents # <<>>
                  THEN req[i].resp.parents[1] ELSE "root"

\* With no folder configured, a create_spreadsheet whose body had no parents
\* field has returned the parent the remote service reported for the new file.
C10_Witness ==
    \E i \in Slots :
       /\ Created(i)
       /\ ctx.folder_id = None
       /\ "parents" \in DOMAIN req[i].resp
       /\ req[i].resp.parents = <<"0AROOT">>
       /\ req[i].value.folder = "0AROOT"

\* The invocation in slot i is a list_spreadsheets that has returned.
Listed(i) ==
    /\ req[i].st = "done"
    /\ req[i].outcome = "return"
    /\ req[i].tool = "list_spreadsheets"

\* The file of the drive with this id has this folder among its parents.
LocatedIn(id, folder) ==
    \E k \in DOMAIN DriveFiles :
       /\ DriveFiles[k].id = id
       /\ folder \in {DriveFiles[k].parents[n] : n \in DOMAIN DriveFiles[k].parents}

\* C11: list_spreadsheets returns only documents located in the configured
\* working folder, or only documents located in the default root when no folder
\* is configured; the result is the remote's sequence, in the remote's order,
\* mapped element by element to {id, title}.
C11_OnlyFromFolderOrRoot ==
    \A i \in Slots :
       Listed(i) =>
          LET files == IF "files" \in DOMAIN req[i].resp THEN req[i].resp.files ELSE <<>>
              where == IF ctx.folder_id # None THEN ctx.folder_id ELSE "0AROOT"
          IN  /\ Len(req[i].value) = Len(files)
              /\ \A k \in DOMAIN files :
                    req[i].value[k] = [id |-> files[k].id, title |-> files[k].name]
              /\ \A k \in DOMAIN req[i].value : LocatedIn(req[i].value[k].id, where)

====
